---- MODULE Spec2Model ----
(***************************************************************************)
(* A model of ear7h/authn: the user table behind Database (database.rs),   *)
(* the password and token functions (crypto.rs), the server's handlers     *)
(* (server.rs), the client's two-phase validate_token (client.rs) and the  *)
(* administrative commands of authn-utils (bin/authn-utils.rs).            *)
(*                                                                         *)
(* Every caller is a task.  A Database method first awaits the tokio Mutex *)
(* around the connection (db_method!), runs its statement while holding it *)
(* and releases it on return; the model has one step for the lock() call   *)
(* and one for the body together with the release.                         *)
(*                                                                         *)
(* Time is the wall clock in whole seconds: Token::issue reads it with     *)
(* as_secs() and the jwt validation with a whole-second timestamp.         *)
(***************************************************************************)
EXTENDS Integers, Sequences, FiniteSets, TLC

\* ------------------------------------------------------------- bounds
NumTasks == 2
MaxRevokes == 2
MaxTicks == 2

\* ---------------------------------------------------------- constants
\* server.rs:16  const MAX_DURATION : u64 = 60 * 60 * 24 * 30
MAX_DURATION == 2592000
\* database.rs:81  the extended result code SQLITE_CONSTRAINT_UNIQUE
SQLITE_CONSTRAINT_UNIQUE == 2067
\* the users table's default for token_version
INITIAL_VERSION == 0

\* --------------------------------------------------------- input sets
Tasks == 1..NumTasks
Names == {"alice", "bob"}
Passwords == {"pw1", "pw2"}
ClientNames == {"app", "other"}
Durations == {0, 1, MAX_DURATION + 1}
TickSteps == {1, MAX_DURATION}

\* the server's Config: server_name, alg and the key pair behind the two files
SERVER_NAME == "authn"
SERVER_ALG == "ES256"
PRIV_KEY == "ec-priv"
PUB_KEY == "ec-pub"

\* jwt::Algorithm, and the "none" of an unsigned token, which is no variant of it
EcAlgs == {"ES256", "ES384"}
RsaAlgs == {"RS256", "RS384", "RS512", "PS256", "PS384", "PS512"}
HmacAlgs == {"HS256", "HS384", "HS512"}
Algorithms == EcAlgs \cup RsaAlgs \cup HmacAlgs

VARIABLES
    users,     \* the users table: name -> NoUser or [pass_hash, token_version]
    permits,   \* the Mutex around the connection: 1 free, 0 held
    waiters,   \* tasks suspended in lock().await, in arrival order
    now,       \* the wall clock, seconds since the epoch
    pc,        \* each task's position: idle, waiting, locked, fetched
    req,       \* each task's call in progress
    out,       \* the outcome of the call that the last step completed, if any
    held,      \* the token a caller holds: one that some login returned
    heldHist,  \* history of held: revokes[sub] when its login read the user and
               \* when it issued the token, the duration requested and issued
    revokes,   \* history: increment_token calls completed on each existing record
    firstPass, \* history: the password of the first insert_user call completed
               \* for each name
    rejected   \* history: a token that a client's validate_token has rejected
               \* and that the caller keeps to present it again

vars == <<users, permits, waiters, now, pc, req, out, held, heldHist, revokes,
          firstPass, rejected>>

NoUser == [absent |-> TRUE]
NoToken == [absent |-> TRUE]
NoReq == [op |-> "none"]
NoPass == "(none)"
NoRejection == [absent |-> TRUE]

\* ------------------------------------------------------------ crypto.rs

\* encode_password: argon2::hash_encoded under a fresh salt; the encoded string
\* carries the parameters, the salt and the digest of pass under that salt.
encode_password(pass, salt) ==
    [scheme |-> "argon2i", salt |-> salt, digest |-> <<salt, pass>>]

\* verify_password: argon2::verify_encoded recomputes the digest of pass under
\* the salt of encoded and compares.
verify_password(encoded, pass) ==
    encoded.digest = <<encoded.salt, pass>>

\* jwt signing: what a signature commits to.  A signature made with the private
\* key verifies under the public key of the pair; an HMAC is keyed by the bytes
\* the verifier holds.
jwt_sign(alg, key, claims) == [alg |-> alg, key |-> key, over |-> claims]

jwt_verify(sig, claims, pub_key, alg) ==
    IF alg \in HmacAlgs
    THEN sig = jwt_sign(alg, pub_key, claims)
    ELSE pub_key = PUB_KEY /\ sig = jwt_sign(alg, PRIV_KEY, claims)

\* Token::issue: iat is the clock, exp the clock plus exp_duration, both in
\* whole seconds; the claims are signed under a header naming alg.
Token_issue(tok, enc_key, alg, exp_duration, clock) ==
    LET claims == [iss |-> tok.iss, aud |-> tok.aud, sub |-> tok.sub,
                   version |-> tok.version,
                   iat |-> clock, exp |-> clock + exp_duration]
    IN  [alg |-> alg, claims |-> claims, sig |-> jwt_sign(alg, enc_key, claims)]

\* make_validation leaving the expiry unchecked
make_validation_no_exp(alg, aud, iss) ==
    [validate_exp |-> FALSE, leeway |-> 0, iss |-> iss, aud |-> {aud},
     algorithms |-> {alg}]

\* make_validation that sets no audience: jwt then accepts every aud
make_validation_any_aud(alg, aud, iss) ==
    [validate_exp |-> TRUE, leeway |-> 0, iss |-> iss, aud |-> ClientNames,
     algorithms |-> {alg}]

\* client.rs make_validation: expiry checked, one issuer, one audience, one
\* algorithm; everything else jwt's default (leeway 0).
make_validation(alg, aud, iss) ==
    [validate_exp |-> TRUE, leeway |-> 0, iss |-> iss, aud |-> {aud},
     algorithms |-> {alg}]

JwtErr(kind) == [ok |-> FALSE, kind |-> kind]

\* Token::validate without the allow-list of algorithms
Token_validate_any_alg(token, validation, pub_key, clock) ==
    IF token.alg \notin Algorithms THEN JwtErr("Json")
    ELSE IF ~jwt_verify(token.sig, token.claims, pub_key, token.alg)
        THEN JwtErr("InvalidSignature")
    ELSE IF validation.validate_exp /\ token.claims.exp < clock - validation.leeway
        THEN JwtErr("ExpiredSignature")
    ELSE IF token.claims.iss # validation.iss THEN JwtErr("InvalidIssuer")
    ELSE IF token.claims.aud \notin validation.aud THEN JwtErr("InvalidAudience")
    ELSE [ok |-> TRUE, iss |-> token.claims.iss, aud |-> token.claims.aud,
          sub |-> token.claims.sub, version |-> token.claims.version]

\* Token::validate refusing a token in the very second it expires
Token_validate_exp_early(token, validation, pub_key, clock) ==
    IF token.alg \notin Algorithms THEN JwtErr("Json")
    ELSE IF token.alg \notin validation.algorithms THEN JwtErr("InvalidAlgorithm")
    ELSE IF ~jwt_verify(token.sig, token.claims, pub_key, token.alg)
        THEN JwtErr("InvalidSignature")
    ELSE IF token.claims.exp <= clock THEN JwtErr("ExpiredSignature")
    ELSE IF token.claims.iss # validation.iss THEN JwtErr("InvalidIssuer")
    ELSE IF token.claims.aud \notin validation.aud THEN JwtErr("InvalidAudience")
    ELSE [ok |-> TRUE, iss |-> token.claims.iss, aud |-> token.claims.aud,
          sub |-> token.claims.sub, version |-> token.claims.version]

\* Token::validate: jwt::decode.  The header is parsed (its alg must be a
\* jwt::Algorithm), then the allow-list, the signature, the expiry, the issuer
\* and the audience are checked, in that order.
Token_validate(token, validation, pub_key, clock) ==
    IF token.alg \notin Algorithms THEN JwtErr("Json")
    ELSE IF token.alg \notin validation.algorithms THEN JwtErr("InvalidAlgorithm")
    ELSE IF ~jwt_verify(token.sig, token.claims, pub_key, token.alg)
        THEN JwtErr("InvalidSignature")
    ELSE IF validation.validate_exp /\ token.claims.exp < clock - validation.leeway
        THEN JwtErr("ExpiredSignature")
    ELSE IF token.claims.iss # validation.iss THEN JwtErr("InvalidIssuer")
    ELSE IF token.claims.aud \notin validation.aud THEN JwtErr("InvalidAudience")
    ELSE [ok |-> TRUE, iss |-> token.claims.iss, aud |-> token.claims.aud,
          sub |-> token.claims.sub, version |-> token.claims.version]

\* ---------------------------------------------------------- database.rs

DbErr(kind, name) == [ok |-> FALSE, kind |-> kind, name |-> name]

\* get_user_by_name: SELECT * FROM users WHERE users.name = ?
get_user_by_name(db, name) ==
    IF db[name] = NoUser
    THEN DbErr("UserNotFound", name)
    ELSE [ok |-> TRUE,
          user |-> [name |-> name, pass_hash |-> db[name].pass_hash,
                    token_version |-> db[name].token_version]]

\* increment_token writing a version instead of adding to the stored one
increment_token_rows_set(db, name) ==
    [db EXCEPT ![name] =
        IF @ = NoUser THEN @
        ELSE [@ EXCEPT !.token_version = INITIAL_VERSION + 1]]

\* the UPDATE without its WHERE clause: every row is incremented
increment_token_rows_everywhere(db, name) ==
    [n \in DOMAIN db |->
        IF db[n] = NoUser THEN db[n]
        ELSE [db[n] EXCEPT !.token_version = @ + 1]]

\* increment_token: UPDATE users SET token_version = token_version + 1
\* WHERE name = ?; the result is Ok(()) whatever the number of rows changed.
increment_token_rows(db, name) ==
    [db EXCEPT ![name] =
        IF @ = NoUser THEN @
        ELSE [@ EXCEPT !.token_version = @ + 1]]

\* increment_token reporting a name without a row
increment_token_checked(db, name) ==
    [ok |-> db[name] # NoUser, db |-> increment_token_rows(db, name)]

increment_token(db, name) ==
    [ok |-> TRUE, db |-> increment_token_rows(db, name)]

\* INSERT OR REPLACE: a second row for the name replaces the first
sqlite_insert_or_replace(db, name, pass_hash) ==
    [code |-> 0,
     db |-> [db EXCEPT ![name] = [pass_hash |-> pass_hash,
                                   token_version |-> INITIAL_VERSION]]]

\* a refused INSERT that has written the new pass_hash over the old one
sqlite_insert_overwriting(db, name, pass_hash) ==
    IF db[name] # NoUser
    THEN [code |-> SQLITE_CONSTRAINT_UNIQUE,
          db |-> [db EXCEPT ![name].pass_hash = pass_hash]]
    ELSE [code |-> 0,
          db |-> [db EXCEPT ![name] = [pass_hash |-> pass_hash,
                                        token_version |-> INITIAL_VERSION]]]

\* The INSERT's outcome in sqlite: the unique index on name refuses a second
\* row with extended code 2067, and the statement then changes nothing.
sqlite_insert(db, name, pass_hash) ==
    IF db[name] # NoUser
    THEN [code |-> SQLITE_CONSTRAINT_UNIQUE, db |-> db]
    ELSE [code |-> 0,
          db |-> [db EXCEPT ![name] = [pass_hash |-> pass_hash,
                                        token_version |-> INITIAL_VERSION]]]

\* error_code_match looking for SQLITE_CONSTRAINT_PRIMARYKEY
error_code_match_primarykey(code, ext) == code = 1555

\* error_code_match: the failure's extended code is ext
error_code_match(code, ext) == code = ext

\* insert_user: INSERT INTO users (name, pass_hash) VALUES (?, ?)
insert_user(db, name, pass_hash) ==
    LET r == sqlite_insert(db, name, pass_hash)
    IN  IF r.code = 0 THEN [ok |-> TRUE, db |-> r.db]
        ELSE IF error_code_match(r.code, SQLITE_CONSTRAINT_UNIQUE)
             THEN [ok |-> FALSE, kind |-> "DuplicateName", name |-> name, db |-> r.db]
             ELSE [ok |-> FALSE, kind |-> "Rusqlite", name |-> name, db |-> r.db]

\* a lock() that hands out the connection whether or not it is held
MutexLock_unguarded(t) ==
    /\ permits' = 0
    /\ waiters' = waiters
    /\ pc' = [pc EXCEPT ![t] = "locked"]

\* db_method!: let conn = self.conn.lock().await.  A free Mutex is taken at
\* once; otherwise the task queues behind the earlier waiters.
MutexLock(t) ==
    IF permits = 1 /\ waiters = <<>>
    THEN /\ permits' = 0
         /\ waiters' = waiters
         /\ pc' = [pc EXCEPT ![t] = "locked"]
    ELSE /\ permits' = permits
         /\ waiters' = Append(waiters, t)
         /\ pc' = [pc EXCEPT ![t] = "waiting"]

\* a release that frees the Mutex without waking the first waiter
MutexUnlock_lost_wakeup(t, next) ==
    /\ permits' = 1
    /\ waiters' = waiters
    /\ pc' = [pc EXCEPT ![t] = next]

\* db_method!: the guard is dropped when the method returns, on every path; the
\* permit goes to the first waiter, if any.
MutexUnlock(t, next) ==
    IF waiters = <<>>
    THEN /\ permits' = 1
         /\ waiters' = waiters
         /\ pc' = [pc EXCEPT ![t] = next]
    ELSE /\ permits' = permits
         /\ waiters' = Tail(waiters)
         /\ pc' = [pc EXCEPT ![t] = next, ![Head(waiters)] = "locked"]

\* ------------------------------------------------------------ server.rs

\* What a configured key file holds: nothing readable, an EC key in PEM, an
\* RSA key in PEM, or a text that is no key (an HMAC secret, say)
KeyFiles == {"missing", "ec-pem", "rsa-pem", "secret"}
DatabaseFiles == {"users.db", "unopenable"}

\* the server's Config, as far as new_server reads it
ServerConfigs ==
    [alg : Algorithms, priv_key_file : KeyFiles, pub_key_file : KeyFiles,
     database : DatabaseFiles]

\* the client's Config, as far as TryFrom<Config> reads it
ClientFileConfigs == [alg : Algorithms, pub_key_file : KeyFiles]

StartErr(kind, alg, opened) ==
    [ok |-> FALSE, kind |-> kind, alg |-> alg, opened |-> opened]

\* jwt's from_ec_pem and from_rsa_pem: the text must be a PEM key of the kind
from_pem(kind, text) == text = kind

\* new_server taking an HMAC algorithm with the file's text as the secret
new_server_with_hmac(config) ==
    IF config.priv_key_file = "missing" THEN StartErr("Io", "", FALSE)
    ELSE IF config.alg \in EcAlgs /\ ~from_pem("ec-pem", config.priv_key_file)
        THEN StartErr("Jwt", "", FALSE)
    ELSE IF config.alg \in RsaAlgs /\ ~from_pem("rsa-pem", config.priv_key_file)
        THEN StartErr("Jwt", "", FALSE)
    ELSE IF config.pub_key_file = "missing" THEN StartErr("Io", "", FALSE)
    ELSE IF config.database = "unopenable" THEN StartErr("Rusqlite", "", TRUE)
    ELSE [ok |-> TRUE, kind |-> "", alg |-> config.alg, opened |-> TRUE]

\* new_server: the private key file is read, the key is parsed as the
\* algorithm's family asks (any other algorithm ends the construction), the
\* public key file is read, and only then is the database opened.
new_server(config) ==
    IF config.priv_key_file = "missing" THEN StartErr("Io", "", FALSE)
    ELSE IF config.alg \in EcAlgs /\ ~from_pem("ec-pem", config.priv_key_file)
        THEN StartErr("Jwt", "", FALSE)
    ELSE IF config.alg \in RsaAlgs /\ ~from_pem("rsa-pem", config.priv_key_file)
        THEN StartErr("Jwt", "", FALSE)
    ELSE IF config.alg \notin EcAlgs \cup RsaAlgs
        THEN StartErr("AlgorithmNotAllowed", config.alg, FALSE)
    ELSE IF config.pub_key_file = "missing" THEN StartErr("Io", "", FALSE)
    ELSE IF config.database = "unopenable" THEN StartErr("Rusqlite", "", TRUE)
    ELSE [ok |-> TRUE, kind |-> "", alg |-> config.alg, opened |-> TRUE]

\* render_error: the status and the body's "error" text of each Error
render_error(kind) ==
    CASE kind = "UserNotFound" -> [status |-> 404, error |-> "user not found"]
      [] kind = "BadRequest"   -> [status |-> 400, error |-> "bad request"]
      [] kind = "LoginFailed"  -> [status |-> 401, error |-> "login failed"]
      [] OTHER                 -> [status |-> 500, error |-> "internal server error"]

Min(a, b) == IF a < b THEN a ELSE b

\* post_login without the password check
post_login_unverified(user, r, clock) ==
    [ok |-> TRUE,
     exp_duration |-> Min(r.duration, MAX_DURATION),
     token |-> Token_issue(
         [iss |-> SERVER_NAME, aud |-> r.aud, sub |-> r.name,
          version |-> user.token_version],
         PRIV_KEY, SERVER_ALG, Min(r.duration, MAX_DURATION), clock)]

\* post_login issuing every token with the initial version
post_login_version0(user, r, clock) ==
    IF ~verify_password(user.pass_hash, r.pass)
    THEN [ok |-> FALSE, kind |-> "LoginFailed"]
    ELSE [ok |-> TRUE,
          exp_duration |-> Min(r.duration, MAX_DURATION),
          token |-> Token_issue(
              [iss |-> SERVER_NAME, aud |-> r.aud, sub |-> r.name,
               version |-> INITIAL_VERSION],
              PRIV_KEY, SERVER_ALG, Min(r.duration, MAX_DURATION), clock)]

\* post_login handing the requested duration to Token::issue as it came
post_login_unclamped(user, r, clock) ==
    IF ~verify_password(user.pass_hash, r.pass)
    THEN [ok |-> FALSE, kind |-> "LoginFailed"]
    ELSE [ok |-> TRUE,
          exp_duration |-> r.duration,
          token |-> Token_issue(
              [iss |-> SERVER_NAME, aud |-> r.aud, sub |-> r.name,
               version |-> user.token_version],
              PRIV_KEY, SERVER_ALG, r.duration, clock)]

\* post_login after the user fetch: the password is verified against the
\* fetched record, then the token is issued with the fetched token_version and
\* the requested duration cut to MAX_DURATION.
post_login(user, r, clock) ==
    IF ~verify_password(user.pass_hash, r.pass)
    THEN [ok |-> FALSE, kind |-> "LoginFailed"]
    ELSE [ok |-> TRUE,
          exp_duration |-> Min(r.duration, MAX_DURATION),
          token |-> Token_issue(
              [iss |-> SERVER_NAME, aud |-> r.aud, sub |-> r.name,
               version |-> user.token_version],
              PRIV_KEY, SERVER_ALG, Min(r.duration, MAX_DURATION), clock)]

\* get_user serialising the whole row
get_user_whole_row(db, name) ==
    LET r == get_user_by_name(db, name)
    IN  IF r.ok
        THEN [status |-> 200, error |-> "",
              name |-> r.user.name, token_version |-> r.user.token_version,
              pass_hash |-> r.user.pass_hash]
        ELSE [status |-> render_error(r.kind).status,
              error |-> render_error(r.kind).error,
              name |-> "", token_version |-> 0, pass_hash |-> ""]

\* get_user: the record's name and token_version, nothing else
get_user(db, name) ==
    LET r == get_user_by_name(db, name)
    IN  IF r.ok
        THEN [status |-> 200, error |-> "",
              name |-> r.user.name, token_version |-> r.user.token_version]
        ELSE [status |-> render_error(r.kind).status,
              error |-> render_error(r.kind).error,
              name |-> "", token_version |-> 0]

\* get_pub_key: the public key file's text
get_pub_key == [status |-> 200, body |-> PUB_KEY]

\* ------------------------------------------------------------ client.rs

\* TryFrom<Config> for Client: the public key file is read, the key is parsed
\* as the algorithm's family asks, any other algorithm ends the construction.
\* A client opens no database.
Client_try_from(config) ==
    IF config.pub_key_file = "missing" THEN StartErr("Io", "", FALSE)
    ELSE IF config.alg \in EcAlgs /\ ~from_pem("ec-pem", config.pub_key_file)
        THEN StartErr("Jwt", "", FALSE)
    ELSE IF config.alg \in RsaAlgs /\ ~from_pem("rsa-pem", config.pub_key_file)
        THEN StartErr("Jwt", "", FALSE)
    ELSE IF config.alg \notin EcAlgs \cup RsaAlgs
        THEN StartErr("AlgorithmNotAllowed", config.alg, FALSE)
    ELSE [ok |-> TRUE, kind |-> "", alg |-> config.alg, opened |-> FALSE]

\* Config of a client: client_name, server_name, alg (the key file is the
\* server's public key)
ClientConfig(client_name, server_name, alg) ==
    [client_name |-> client_name, server_name |-> server_name, alg |-> alg]

\* the clients of this server, one per client name
Clients == { ClientConfig(a, SERVER_NAME, SERVER_ALG) : a \in ClientNames }

\* and clients configured with another server_name or another EC algorithm
ClientConfigs ==
    Clients \cup { ClientConfig("app", "rogue", SERVER_ALG),
                   ClientConfig("app", SERVER_NAME, "ES384") }

\* validate_token without the comparison of the versions
validate_token_unchecked(resp, claims) ==
    IF resp.status # 200 THEN [ok |-> FALSE, kind |-> "Api", msg |-> resp.error]
    ELSE [ok |-> TRUE, kind |-> "", msg |-> claims.sub]

\* validate_token accepting every version up to the stored one
validate_token_at_most(resp, claims) ==
    IF resp.status # 200 THEN [ok |-> FALSE, kind |-> "Api", msg |-> resp.error]
    ELSE IF resp.token_version < claims.version
        THEN [ok |-> FALSE, kind |-> "VersionMismatch", msg |-> ""]
    ELSE [ok |-> TRUE, kind |-> "", msg |-> claims.sub]

\* validate_token after the local check: the response to GET /user/{sub} is
\* read and its token_version compared with the token's version.
validate_token_remote(resp, claims) ==
    IF resp.status # 200 THEN [ok |-> FALSE, kind |-> "Api", msg |-> resp.error]
    ELSE IF resp.token_version # claims.version
        THEN [ok |-> FALSE, kind |-> "VersionMismatch", msg |-> ""]
    ELSE [ok |-> TRUE, kind |-> "", msg |-> claims.sub]

\* What a caller can present as a token: a token some login returned, or one
\* rebuilt from it without the private key: the header's alg replaced by none
\* and the signature dropped, the header's alg replaced by HS256 and the HMAC
\* keyed by the public key, a claim altered under the old signature.
Forgeries(tok) ==
    {
      [tok EXCEPT !.alg = "none", !.sig = jwt_sign("none", "", tok.claims)],
      [tok EXCEPT !.alg = "HS256", !.sig = jwt_sign("HS256", PUB_KEY, tok.claims)],
      [tok EXCEPT !.claims.version = @ + 1] }

\* -------------------------------------------------------------- tasks

Salts == {"s1"}

Outcome(t, op, ok, kind, status, msg, token, hist) ==
    [task |-> t, op |-> op, ok |-> ok, kind |-> kind, status |-> status,
     msg |-> msg, token |-> token, hist |-> hist]

NoOutcome == Outcome(0, "none", TRUE, "", 0, "", NoToken, <<>>)

Init ==
    /\ users = [n \in Names |-> NoUser]
    /\ permits = 1
    /\ waiters = <<>>
    /\ now = 0
    /\ pc = [t \in Tasks |-> "idle"]
    /\ req = [t \in Tasks |-> NoReq]
    /\ out = NoOutcome
    /\ held = NoToken
    /\ heldHist = <<>>
    /\ revokes = [n \in Names |-> 0]
    /\ firstPass = [n \in Names |-> NoPass]
    /\ rejected = NoRejection

\* A call starts.
Begin(t, r) ==
    /\ pc[t] = "idle"
    /\ req' = [req EXCEPT ![t] = r]
    /\ out' = NoOutcome

InBody(t, op) == pc[t] = "locked" /\ req[t].op = op

\* A call returns.
Finish(t, o) ==
    /\ req' = [req EXCEPT ![t] = NoReq]
    /\ out' = o

\* The wall clock advances.
Elapsed == (now \div MAX_DURATION) + (now % MAX_DURATION)

Tick(d) ==
    /\ Elapsed < MaxTicks
    /\ now' = now + d
    /\ out' = NoOutcome
    /\ UNCHANGED <<users, permits, waiters, pc, req, held, heldHist, revokes,
                   firstPass, rejected>>

\* The Database methods other tasks are in, waiting for the connection or
\* holding it
InFlightOps ==
    { req[s].op : s \in { x \in Tasks : pc[x] \in {"waiting", "locked"} } }

\* authn-utils add-user: encode_password, then Database::insert_user; unwrap
\* turns an Err into a panic of the command.
AddUserCall(t, name, pass, salt) ==
    /\ Begin(t, [op |-> "add-user", name |-> name, pass |-> pass,
                 pass_hash |-> encode_password(pass, salt),
                 behind |-> InFlightOps, absent |-> users[name] = NoUser])
    /\ MutexLock(t)
    /\ UNCHANGED <<users, now, held, heldHist, revokes, firstPass, rejected>>

\* authn-utils update-user-pass: the same two calls as add-user.
UpdateUserPassCall(t, name, pass, salt) ==
    /\ Begin(t, [op |-> "update-user-pass", name |-> name, pass |-> pass,
                 pass_hash |-> encode_password(pass, salt),
                 behind |-> InFlightOps, absent |-> users[name] = NoUser])
    /\ MutexLock(t)
    /\ UNCHANGED <<users, now, held, heldHist, revokes, firstPass, rejected>>

InsertUserBody(t) ==
    /\ InBody(t, "add-user") \/ InBody(t, "update-user-pass")
    /\ LET r == insert_user(users, req[t].name, req[t].pass_hash)
       IN  /\ users' = r.db
           /\ firstPass' = [firstPass EXCEPT ![req[t].name] =
                               IF @ = NoPass THEN req[t].pass ELSE @]
           /\ Finish(t, Outcome(t, req[t].op, r.ok, IF r.ok THEN "" ELSE r.kind,
                                0, IF r.ok THEN req[t].name ELSE r.name, NoToken,
                                [name |-> req[t].name,
                                 first |-> firstPass[req[t].name] = NoPass,
                                 pass_hash |-> req[t].pass_hash,
                                 behind |-> req[t].behind,
                                 absent |-> req[t].absent]))
    /\ MutexUnlock(t, "idle")
    /\ UNCHANGED <<now, held, heldHist, revokes, rejected>>

\* authn-utils invalidate-user-tokens (revoke): Database::increment_token
InFlightRevokes(name) ==
    Cardinality({ s \in Tasks : req[s].op = "revoke" /\ req[s].name = name })

RevokeCall(t, name) ==
    /\ revokes[name] + InFlightRevokes(name) < MaxRevokes
    /\ Begin(t, [op |-> "revoke", name |-> name, behind |-> InFlightOps])
    /\ MutexLock(t)
    /\ UNCHANGED <<users, now, held, heldHist, revokes, firstPass, rejected>>

RevokeBody(t) ==
    /\ InBody(t, "revoke")
    /\ LET r == increment_token(users, req[t].name)
       IN  /\ users' = r.db
           /\ revokes' = [revokes EXCEPT ![req[t].name] =
                             IF firstPass[req[t].name] = NoPass THEN @ ELSE @ + 1]
           /\ Finish(t, Outcome(t, "revoke", r.ok, "", 0, req[t].name, NoToken,
                                [existed |-> firstPass[req[t].name] # NoPass,
                                 behind |-> req[t].behind]))
    /\ MutexUnlock(t, "idle")
    /\ UNCHANGED <<now, held, heldHist, firstPass, rejected>>

\* POST /login: the handler parses the request and calls get_user_by_name.
LoginCall(t, name, pass, aud, duration) ==
    /\ Begin(t, [op |-> "login", name |-> name, pass |-> pass, aud |-> aud,
                 duration |-> duration, user |-> NoUser, epoch |-> 0])
    /\ MutexLock(t)
    /\ UNCHANGED <<users, now, held, heldHist, revokes, firstPass, rejected>>

LoginOutcome(t, r, hist) ==
    IF r.ok
    THEN Outcome(t, "login", TRUE, "", 200, "", r.token, hist)
    ELSE Outcome(t, "login", FALSE, r.kind, render_error(r.kind).status,
                 render_error(r.kind).error, NoToken, hist)

\* The user fetch of post_login; UserNotFound ends the handler.
LoginFetch(t) ==
    /\ InBody(t, "login")
    /\ LET r == get_user_by_name(users, req[t].name)
       IN  IF r.ok
           THEN /\ req' = [req EXCEPT ![t].user = r.user,
                                      ![t].epoch = revokes[req[t].name]]
                /\ out' = NoOutcome
                /\ MutexUnlock(t, "fetched")
           ELSE /\ Finish(t, LoginOutcome(t, r,
                       [name |-> req[t].name, pass |-> req[t].pass,
                        known |-> firstPass[req[t].name]]))
                /\ MutexUnlock(t, "idle")
    /\ UNCHANGED <<users, now, held, heldHist, revokes, firstPass, rejected>>

\* The rest of post_login, after the lock is released.  The caller may keep
\* the token it held or hold the new one.
LoginIssue(t, keep) ==
    /\ pc[t] = "fetched"
    /\ LET r == post_login(req[t].user, req[t], now)
           e == [fetch |-> req[t].epoch, issue |-> revokes[req[t].name],
                 requested |-> req[t].duration,
                 duration |-> IF r.ok THEN r.exp_duration ELSE 0]
       IN  /\ Finish(t, LoginOutcome(t, r,
                   [name |-> req[t].name, pass |-> req[t].pass,
                    known |-> firstPass[req[t].name], epoch |-> e]))
           /\ IF r.ok /\ ~(keep /\ held # NoToken)
              THEN held' = r.token /\ heldHist' = e
              ELSE UNCHANGED <<held, heldHist>>
    /\ pc' = [pc EXCEPT ![t] = "idle"]
    /\ UNCHANGED <<users, permits, waiters, now, revokes, firstPass, rejected>>

\* GET /user/{name}
GetUserCall(t, name) ==
    /\ Begin(t, [op |-> "get_user", name |-> name])
    /\ MutexLock(t)
    /\ UNCHANGED <<users, now, held, heldHist, revokes, firstPass, rejected>>

GetUserBody(t) ==
    /\ InBody(t, "get_user")
    /\ LET r == get_user(users, req[t].name)
       IN  Finish(t, Outcome(t, "get_user", r.status = 200, "", r.status,
                             r.error, NoToken,
                             [name |-> req[t].name, body |-> r,
                              known |-> firstPass[req[t].name]]))
    /\ MutexUnlock(t, "idle")
    /\ UNCHANGED <<users, now, held, heldHist, revokes, firstPass, rejected>>

\* GET /pub-key
GetPubKey(t) ==
    /\ pc[t] = "idle"
    /\ out' = Outcome(t, "get_pub_key", TRUE, "", get_pub_key.status,
                      get_pub_key.body, NoToken, <<>>)
    /\ UNCHANGED <<users, permits, waiters, now, pc, req, held, heldHist,
                   revokes, firstPass, rejected>>

\* Client::validate_token, phase 1: Token::validate under the client's
\* validation; an Err returns at once, an Ok sends GET /user/{sub}, whose
\* handler calls get_user_by_name.
ValidateCallOf(t, c, token, e) ==
    /\ pc[t] = "idle"
    /\ LET v == Token_validate(token,
                    make_validation(c.alg, c.client_name, c.server_name),
                    PUB_KEY, now)
           h == [token |-> token, client |-> c, epoch |-> e,
                 clock |-> now, atCall |-> revokes[token.claims.sub],
                 atRead |-> revokes[token.claims.sub], sent |-> 0,
                 seen |-> -1]
       IN  IF v.ok
           THEN /\ Begin(t, [op |-> "validate", claims |-> v,
                             hist |-> [h EXCEPT !.sent = 1]])
                /\ MutexLock(t)
           ELSE /\ out' = Outcome(t, "validate", FALSE, "Jwt", 0, v.kind,
                                  NoToken, h)
                /\ UNCHANGED <<req, pc, permits, waiters>>
    /\ UNCHANGED <<users, now, held, heldHist, revokes, firstPass, rejected>>

\* validate_token on the token the caller holds, or on a forgery of it
ValidateCall(t, c, token) == ValidateCallOf(t, c, token, heldHist)

\* The caller keeps the token that the validate_token call just completed has
\* rejected, with the client that rejected it.
Remember ==
    /\ rejected = NoRejection
    /\ out.op = "validate"
    /\ ~out.ok
    /\ rejected' = [token |-> out.hist.token, client |-> out.hist.client,
                    epoch |-> out.hist.epoch, kind |-> out.kind,
                    jwt |-> IF out.kind = "Jwt" THEN out.msg ELSE ""]
    /\ UNCHANGED <<users, permits, waiters, now, pc, req, out, held, heldHist,
                   revokes, firstPass>>

\* validate_token by the same client on the token the caller kept
Replay(t) ==
    /\ rejected # NoRejection
    /\ ValidateCallOf(t, rejected.client, rejected.token, rejected.epoch)

\* Client::validate_token, phase 2: the response is read and the versions are
\* compared.
ValidateRemote(t) ==
    /\ InBody(t, "validate")
    /\ LET resp == get_user(users, req[t].claims.sub)
           r == validate_token_remote(resp, req[t].claims)
       IN  Finish(t, Outcome(t, "validate", r.ok, r.kind, resp.status, r.msg,
                             NoToken,
                             [req[t].hist EXCEPT
                                  !.atRead = revokes[req[t].claims.sub],
                                  !.seen = resp.token_version]))
    /\ MutexUnlock(t, "idle")
    /\ UNCHANGED <<users, now, held, heldHist, revokes, firstPass, rejected>>

\* A server is constructed from a Config.
NewServer(t, config) ==
    /\ pc[t] = "idle"
    /\ LET r == new_server(config)
       IN  out' = Outcome(t, "new_server", r.ok, r.kind, 0, r.alg, NoToken,
                          [config |-> config, opened |-> r.opened])
    /\ UNCHANGED <<users, permits, waiters, now, pc, req, held, heldHist,
                   revokes, firstPass, rejected>>

\* A client is constructed from a Config.
NewClient(t, config) ==
    /\ pc[t] = "idle"
    /\ LET r == Client_try_from(config)
       IN  out' = Outcome(t, "new_client", r.ok, r.kind, 0, r.alg, NoToken,
                          [config |-> config, opened |-> r.opened])
    /\ UNCHANGED <<users, permits, waiters, now, pc, req, held, heldHist,
                   revokes, firstPass, rejected>>

\* ----------------------------------------------------- specifications

\* What a caller can present: the token it holds, or a forgery of it.
Presentable == IF held = NoToken THEN {} ELSE {held} \cup Forgeries(held)

\* One caller at a time, every operation, every input.
Next ==
    \/ Tick(1)
    \/ \E n \in Names, p \in Passwords, s \in Salts : AddUserCall(1, n, p, s)
    \/ \E n \in Names, p \in Passwords, s \in Salts :
           UpdateUserPassCall(1, n, p, s)
    \/ InsertUserBody(1)
    \/ \E n \in Names : RevokeCall(1, n)
    \/ RevokeBody(1)
    \/ \E n \in Names, p \in Passwords, a \in ClientNames :
           LoginCall(1, n, p, a, 1)
    \/ LoginFetch(1)
    \/ \E keep \in BOOLEAN : LoginIssue(1, keep)
    \/ \E n \in Names : GetUserCall(1, n)
    \/ GetUserBody(1)
    \/ GetPubKey(1)
    \/ \E c \in ClientConfigs, token \in Presentable : ValidateCall(1, c, token)
    \/ ValidateRemote(1)

Spec == Init /\ [][Next]_vars

\* Several callers at once on one user: the operations interleave at the
\* Mutex, and between the user fetch of a login and its token.
NextConc ==
    \/ \E t \in Tasks, s \in Salts : AddUserCall(t, "alice", "pw1", s)
    \/ \E t \in Tasks : InsertUserBody(t)
    \/ \E t \in Tasks : RevokeCall(t, "alice")
    \/ \E t \in Tasks : RevokeBody(t)
    \/ \E t \in Tasks : LoginCall(t, "alice", "pw1", "app", 1)
    \/ \E t \in Tasks : LoginFetch(t)
    \/ \E t \in Tasks, keep \in BOOLEAN : LoginIssue(t, keep)
    \/ \E t \in Tasks, c \in Clients, token \in {held} \ {NoToken} :
           ValidateCall(t, c, token)
    \/ \E t \in Tasks : ValidateRemote(t)

SpecConc == Init /\ [][NextConc]_vars

\* Several callers at once on the three Database methods, one name.
NextStore ==
    \/ \E t \in Tasks, s \in Salts : AddUserCall(t, "alice", "pw1", s)
    \/ \E t \in Tasks : InsertUserBody(t)
    \/ \E t \in Tasks : RevokeCall(t, "alice")
    \/ \E t \in Tasks : RevokeBody(t)
    \/ \E t \in Tasks : GetUserCall(t, "alice")
    \/ \E t \in Tasks : GetUserBody(t)

\* The body of the Database method that task t is in.  It has no await after
\* the lock(): a task that holds the connection is runnable until it returns.
MethodBody(t) == InsertUserBody(t) \/ RevokeBody(t) \/ GetUserBody(t)

\* The executor runs every runnable task.
SpecStore ==
    Init /\ [][NextStore]_vars /\ \A t \in Tasks : WF_vars(MethodBody(t))

\* One caller, one user, every duration, the clock stepping by a second or by
\* MAX_DURATION.
NextClock ==
    \/ \E d \in TickSteps : Tick(d)
    \/ \E s \in Salts : AddUserCall(1, "alice", "pw1", s)
    \/ InsertUserBody(1)
    \/ RevokeCall(1, "alice")
    \/ RevokeBody(1)
    \/ \E d \in Durations : LoginCall(1, "alice", "pw1", "app", d)
    \/ LoginFetch(1)
    \/ \E keep \in BOOLEAN : LoginIssue(1, keep)
    \/ \E c \in ClientConfigs, token \in {held} \ {NoToken} :
           ValidateCall(1, c, token)
    \/ ValidateRemote(1)

SpecClock == Init /\ [][NextClock]_vars

\* One caller and one user: tokens for both audiences, forgeries, revokes,
\* repeated inserts and the clock; a rejected token is kept and presented to
\* the same client again.
NextReplay ==
    \/ Tick(1)
    \/ \E s \in Salts : AddUserCall(1, "alice", "pw1", s)
    \/ InsertUserBody(1)
    \/ RevokeCall(1, "alice")
    \/ RevokeBody(1)
    \/ \E a \in ClientNames : LoginCall(1, "alice", "pw1", a, 1)
    \/ LoginFetch(1)
    \/ \E keep \in BOOLEAN : LoginIssue(1, keep)
    \/ \E c \in ClientConfigs, token \in Presentable : ValidateCall(1, c, token)
    \/ ValidateRemote(1)
    \/ Remember
    \/ Replay(1)

SpecReplay == Init /\ [][NextReplay]_vars

\* Servers and clients constructed from every configuration.
NextStartup ==
    \/ \E config \in ServerConfigs : NewServer(1, config)
    \/ \E config \in ClientFileConfigs : NewClient(1, config)

SpecStartup == Init /\ [][NextStartup]_vars

\* ------------------------------------------------------------- claims

\* A validate_token call whose token passed the local check (signature,
\* algorithm, expiry, issuer, audience) and so asked the server
PassedLocal == out.op = "validate" /\ out.hist.sent = 1

\* C1: once a revoke of U has completed, every validate_token call started
\* after it on a token that login issued to U before it, and that still passes
\* the local check, fails with VersionMismatch.
C1_RevokedTokenFails ==
    (PassedLocal /\ out.hist.epoch.issue < out.hist.atCall)
        => (~out.ok /\ out.kind = "VersionMismatch")

C1_Witness ==
    /\ PassedLocal
    /\ out.hist.epoch.issue < out.hist.atCall
    /\ out.hist.token.claims.sub = "alice"
    /\ out.kind = "VersionMismatch"

\* The validating client is the server's client named by the token's audience.
ByAudienceClient ==
    out.hist.client =
        ClientConfig(out.hist.token.claims.aud, SERVER_NAME, SERVER_ALG)

\* C2: a token that login issued for an existing user, for any requested
\* duration, validated in the second of its issuance by the server's client
\* whose name is the token's audience, with no revoke of the user completed
\* between the login's user fetch and the validation's version read, is
\* accepted and validate_token returns the user's name.
C2_FreshTokenValidates ==
    (/\ out.op = "validate"
     /\ ByAudienceClient
     /\ out.hist.clock = out.hist.token.claims.iat
     /\ out.hist.epoch.fetch = out.hist.atRead)
        => (out.ok /\ out.msg = out.hist.token.claims.sub)

C2_Witness ==
    /\ out.op = "validate"
    /\ ByAudienceClient
    /\ out.hist.clock = out.hist.token.claims.iat
    /\ out.hist.epoch.fetch = out.hist.atRead
    /\ out.hist.epoch.requested = 0
    /\ out.ok
    /\ out.msg = "alice"

\* C4: a token issued with duration D, validated at a clock reading later than
\* iat + D by a client configured with the algorithm the token is signed
\* with, fails as expired, in the local phase (no request is sent), whatever
\* the subject's token_version.
C4_ExpiredTokenFails ==
    (/\ out.op = "validate"
     /\ out.hist.client.alg = out.hist.token.alg
     /\ out.hist.clock > out.hist.token.claims.iat + out.hist.epoch.duration)
        => (/\ ~out.ok
            /\ out.kind = "Jwt"
            /\ out.msg = "ExpiredSignature"
            /\ out.hist.sent = 0)

C4_Witness ==
    /\ out.op = "validate"
    /\ ByAudienceClient
    /\ out.hist.clock > out.hist.token.claims.iat + out.hist.epoch.duration
    /\ out.hist.epoch.duration = MAX_DURATION
    /\ out.hist.token.claims.version = users["alice"].token_version
    /\ out.msg = "ExpiredSignature"

\* C3: every increment_token call completed on an existing record, whatever
\* the calls it queued behind at the Mutex, has added exactly one to the
\* record's token_version: after N calls it is N above its initial value.
C3_NoLostRevoke ==
    \A n \in Names :
        users[n] # NoUser =>
            users[n].token_version = INITIAL_VERSION + revokes[n]

C3_Witness ==
    /\ out.op = "revoke"
    /\ out.hist.existed
    /\ "revoke" \in out.hist.behind
    /\ revokes[out.msg] = 2
    /\ users[out.msg].token_version = 2

\* C5: a token whose header algorithm is not the algorithm the client is
\* configured with (the unsigned none included) is rejected by validate_token
\* in the local phase, whatever its claims and the subject's token_version.
C5_AlgorithmAllowList ==
    (out.op = "validate" /\ out.hist.token.alg # out.hist.client.alg)
        => (~out.ok /\ out.hist.sent = 0)

C5_Witness ==
    /\ out.op = "validate"
    /\ out.hist.token.alg = "HS256"
    /\ ByAudienceClient
    /\ out.hist.clock <= out.hist.token.claims.exp
    /\ out.hist.token.claims.version =
           users[out.hist.token.claims.sub].token_version
    /\ ~out.ok
    /\ out.msg = "InvalidAlgorithm"

InsertOps == {"add-user", "update-user-pass"}

\* C6: the first insert_user call for a name succeeds, creates the record
\* with the given pass_hash and token_version 0, and get_user_by_name returns
\* it; every later insert_user call for the name fails with
\* DuplicateName(name); looking up a name no insert_user call was made for
\* fails with UserNotFound(name).
C6_InsertTwice ==
    /\ (out.op \in InsertOps /\ out.hist.first) =>
           /\ out.ok
           /\ get_user_by_name(users, out.msg) =
                  [ok |-> TRUE,
                   user |-> [name |-> out.msg,
                             pass_hash |-> out.hist.pass_hash,
                             token_version |-> 0]]
    /\ (out.op \in InsertOps /\ ~out.hist.first) =>
           (~out.ok /\ out.kind = "DuplicateName" /\ out.hist.name = out.msg)
    /\ (out.op = "get_user" /\ out.hist.known = NoPass) =>
           /\ ~out.ok
           /\ out.status = 404
           /\ get_user_by_name(users, out.hist.name) =
                  DbErr("UserNotFound", out.hist.name)

C6_Witness ==
    /\ out.op = "add-user"
    /\ ~out.hist.first
    /\ out.kind = "DuplicateName"
    /\ users[out.msg].pass_hash # out.hist.pass_hash

\* C7: update-user-pass on an existing user succeeds and leaves the user's
\* record holding the new pass_hash.
C7_UpdateUserPassUpdates ==
    (out.op = "update-user-pass" /\ ~out.hist.first) =>
        (out.ok /\ users[out.hist.name].pass_hash = out.hist.pass_hash)

\* C8: no step removes a record or lowers its token_version; a step changes a
\* record's token_version only by completing a revoke of that user, and every
\* revoke completed on an existing user adds exactly one to it.
C8_VersionOnlyByRevoke ==
    [][\A n \in Names :
          users[n] # NoUser =>
              /\ users'[n] # NoUser
              /\ users'[n].token_version >= users[n].token_version
              /\ users'[n].token_version # users[n].token_version =>
                     (out'.op = "revoke" /\ out'.msg = n)
              /\ (out'.op = "revoke" /\ out'.msg = n) =>
                     users'[n].token_version = users[n].token_version + 1
      ]_vars

C8_Witness ==
    /\ out.op = "revoke"
    /\ out.hist.existed
    /\ users[out.msg].token_version = 2
    /\ \E n \in Names \ {out.msg} :
           users[n] # NoUser /\ users[n].token_version = 1

\* C9: login returns a token only when an insert_user created the user and
\* the password given is the one the record was created with; for a name
\* never inserted it answers 404 "user not found" (UserNotFound), for a wrong
\* password 401 "login failed" (LoginFailed), and then returns no token.
C9_LoginOutcomes ==
    out.op = "login" =>
        /\ out.ok =>
               /\ out.hist.known # NoPass
               /\ out.hist.pass = out.hist.known
               /\ out.status = 200
               /\ out.token # NoToken
        /\ out.hist.known = NoPass =>
               /\ ~out.ok
               /\ out.kind = "UserNotFound"
               /\ out.status = 404
               /\ out.msg = "user not found"
               /\ out.token = NoToken
        /\ (out.hist.known # NoPass /\ out.hist.pass # out.hist.known) =>
               /\ ~out.ok
               /\ out.kind = "LoginFailed"
               /\ out.status = 401
               /\ out.msg = "login failed"
               /\ out.token = NoToken

C9_Witness ==
    /\ out.op = "login"
    /\ out.hist.known # NoPass
    /\ out.hist.pass # out.hist.known
    /\ out.status = 401
    /\ \E n \in Names : firstPass[n] = NoPass

\* C10: a token login returns carries the number of revokes of the user
\* completed before the login's user fetch (0 for a user never revoked); a
\* token passing the local check is accepted when no revoke completed between
\* its login's fetch and the validation's read, and refused when one completed
\* after it was issued.
C10_TokenCarriesFetchedVersion ==
    /\ (out.op = "login" /\ out.ok) =>
           out.token.claims.version = out.hist.epoch.fetch
    /\ (PassedLocal /\ out.hist.epoch.fetch = out.hist.atRead) =>
           (out.ok /\ out.msg = out.hist.token.claims.sub)
    /\ (PassedLocal /\ out.hist.epoch.issue < out.hist.atRead) => ~out.ok

C10_Witness ==
    /\ PassedLocal
    /\ out.hist.epoch.fetch = 2
    /\ out.hist.token.claims.version = 2
    /\ out.hist.atRead = 2
    /\ out.ok

\* C11: a login with the user's password is answered with a token whatever
\* the requested duration; the token's exp - iat is the requested duration
\* when that is at most MAX_DURATION and MAX_DURATION when it is more, so it
\* never exceeds MAX_DURATION.
C11_DurationClamp ==
    (out.op = "login" /\ out.hist.known = out.hist.pass) =>
        /\ out.ok
        /\ out.token.claims.exp - out.token.claims.iat <= MAX_DURATION
        /\ out.hist.epoch.requested > MAX_DURATION =>
               out.token.claims.exp - out.token.claims.iat = MAX_DURATION
        /\ out.hist.epoch.requested <= MAX_DURATION =>
               out.token.claims.exp - out.token.claims.iat =
                   out.hist.epoch.requested

C11_Witness ==
    /\ out.op = "login"
    /\ out.ok
    /\ out.hist.epoch.requested = MAX_DURATION + 1
    /\ out.token.claims.iat > 0
    /\ out.token.claims.exp = out.token.claims.iat + MAX_DURATION

\* C12: a token that a client's validate_token has rejected, as expired, as
\* version-mismatched or in the local check, is rejected by every later
\* validate_token call of that client, whatever logins, revokes, inserts and
\* clock steps come between.
C12_NoReturnToValid ==
    (/\ out.op = "validate"
     /\ rejected # NoRejection
     /\ out.hist.token = rejected.token
     /\ out.hist.client = rejected.client)
        => ~out.ok

C12_Witness ==
    /\ out.op = "validate"
    /\ rejected # NoRejection
    /\ rejected.kind = "VersionMismatch"
    /\ out.hist.token = rejected.token
    /\ out.hist.client = rejected.client
    /\ held # rejected.token
    /\ held.claims.version = users["alice"].token_version
    /\ out.msg = "ExpiredSignature"

\* The tasks running the body of a Database method, the connection in hand
Holders == { t \in Tasks : pc[t] = "locked" }

\* The table that the completed insert_user and increment_token calls leave
\* when run one at a time, in the order in which they completed
SequentialUsers(n) ==
    IF firstPass[n] = NoPass THEN {NoUser}
    ELSE { [pass_hash |-> encode_password(firstPass[n], s),
            token_version |-> INITIAL_VERSION + revokes[n]] : s \in Salts }

\* C13: at most one task holds the connection, and it holds it exactly when
\* the Mutex has no permit; the tasks suspended in lock() are those queued;
\* and the table and the result of every call are those of the completed
\* calls run one at a time in the order in which they held the connection.
C13_MutualExclusion ==
    /\ Cardinality(Holders) = 1 - permits
    /\ \A t \in Tasks :
           pc[t] = "waiting" <=> \E i \in 1..Len(waiters) : waiters[i] = t
    /\ waiters # <<>> => permits = 0
    /\ \A n \in Names : users[n] \in SequentialUsers(n)
    /\ out.op \in InsertOps => (out.ok <=> out.hist.first)
    /\ out.op = "revoke" => out.ok
    /\ out.op = "login" =>
           (out.kind = "UserNotFound" <=> out.hist.known = NoPass)

C13_Witness ==
    /\ \E t \in Holders : req[t].op = "add-user"
    /\ waiters # <<>>
    /\ req[Head(waiters)].op = "revoke"
    /\ users["alice"] # NoUser
    /\ users["alice"].token_version = 1

\* C14: under fair scheduling a task suspended in lock() eventually holds the
\* connection, and a task that holds it eventually returns from the method,
\* also behind calls that returned an error.
C14_LockLiveness ==
    \A t \in Tasks :
        /\ (pc[t] = "waiting") ~> (pc[t] = "locked")
        /\ (pc[t] = "locked") ~> (pc[t] \in {"idle", "fetched"})

C14_Witness ==
    /\ out.op = "add-user"
    /\ ~out.ok
    /\ out.kind = "DuplicateName"
    /\ pc[out.task] = "idle"
    /\ \E t \in Holders : req[t].op = "revoke" /\ "add-user" \in req[t].behind

\* The texts a response carries: the error text, the key, the string claims
ResponseTexts ==
    {out.msg} \cup
        (IF out.op = "get_user" THEN {out.hist.body.name, out.hist.body.error}
         ELSE IF out.op = "login" /\ out.ok
              THEN {out.token.claims.iss, out.token.claims.aud,
                    out.token.claims.sub}
              ELSE {})

ServerOps == {"login", "get_user", "get_pub_key"}

\* C15: the response of get_user has a status, an error text, the name asked
\* for and its token_version, and nothing else; the claims of a token that
\* login returns are iss, aud, sub, version, iat and exp; and no text in a
\* response of login, get_user or get_pub_key is a password or a salt of a
\* stored pass_hash.
C15_NoPassHashExposure ==
    /\ out.op = "get_user" =>
           /\ DOMAIN out.hist.body = {"status", "error", "name", "token_version"}
           /\ out.ok =>
                  /\ out.hist.body.name = out.hist.name
                  /\ out.hist.body.token_version =
                         users[out.hist.name].token_version
    /\ (out.op = "login" /\ out.ok) =>
           DOMAIN out.token.claims =
               {"iss", "aud", "sub", "version", "iat", "exp"}
    /\ out.op \in ServerOps =>
           \A n \in Names :
               users[n] # NoUser =>
                   /\ users[n].pass_hash.salt \notin ResponseTexts
                   /\ firstPass[n] \notin ResponseTexts

C15_Witness ==
    /\ out.op = "get_user"
    /\ out.ok
    /\ out.hist.body.token_version = 1
    /\ users[out.hist.name].pass_hash = encode_password("pw2", "s1")

\* What the local check of the validating client asks of the presented token:
\* the client's algorithm, the server's signature over the claims, an exp not
\* before the clock, the client's server_name and client_name
LocallyValid ==
    /\ out.hist.token.alg = out.hist.client.alg
    /\ out.hist.token.sig =
           jwt_sign(out.hist.token.alg, PRIV_KEY, out.hist.token.claims)
    /\ out.hist.token.claims.exp >= out.hist.clock
    /\ out.hist.token.claims.iss = out.hist.client.server_name
    /\ out.hist.token.claims.aud = out.hist.client.client_name

\* C16: a validate_token call whose token fails the local check returns a
\* Jwt error and has sent no request; one whose token passes it has sent one
\* GET /user/{sub} request, and returns the token's subject exactly when the
\* response is 200 and its token_version is the token's version.
C16_TwoPhase ==
    out.op = "validate" =>
        /\ ~LocallyValid =>
               (~out.ok /\ out.kind = "Jwt" /\ out.hist.sent = 0
                /\ out.hist.seen = -1)
        /\ LocallyValid =>
               /\ out.hist.sent = 1
               /\ out.ok <=>
                      (out.status = 200
                       /\ out.hist.seen = out.hist.token.claims.version)
               /\ out.ok => out.msg = out.hist.token.claims.sub
               /\ ~out.ok => out.kind = "VersionMismatch"

C16_Witness ==
    /\ out.op = "validate"
    /\ LocallyValid
    /\ out.hist.sent = 1
    /\ out.hist.seen = 2
    /\ out.hist.token.claims.version = 1
    /\ out.kind = "VersionMismatch"

\* C17: a token whose aud is not the validating client's client_name, or
\* whose iss is not its server_name, is rejected by validate_token with a Jwt
\* error and no request sent, whatever its signature, expiry and version.
C17_AudienceIssuer ==
    (/\ out.op = "validate"
     /\ \/ out.hist.token.claims.aud # out.hist.client.client_name
        \/ out.hist.token.claims.iss # out.hist.client.server_name)
        => (~out.ok /\ out.kind = "Jwt" /\ out.hist.sent = 0)

C17_Witness ==
    /\ out.op = "validate"
    /\ out.hist.token.claims.aud = "app"
    /\ out.hist.client = ClientConfig("other", SERVER_NAME, SERVER_ALG)
    /\ out.hist.token.sig =
           jwt_sign(SERVER_ALG, PRIV_KEY, out.hist.token.claims)
    /\ out.hist.token.claims.exp >= out.hist.clock
    /\ out.hist.token.claims.version =
           users[out.hist.token.claims.sub].token_version
    /\ out.msg = "InvalidAudience"

\* C18: of the insert_user calls for a name, concurrent ones included, the
\* first to hold the connection succeeds and every other one fails with
\* DuplicateName(name); the name's one record is the one that call stored.
C18_UniqueNames ==
    /\ out.op \in InsertOps =>
           /\ out.ok <=> out.hist.first
           /\ ~out.ok => (out.kind = "DuplicateName" /\ out.msg = out.hist.name)
    /\ \A n \in Names :
           IF firstPass[n] = NoPass
           THEN users[n] = NoUser
           ELSE users[n] # NoUser
                /\ verify_password(users[n].pass_hash, firstPass[n])

C18_Witness ==
    /\ out.op = "add-user"
    /\ out.hist.absent
    /\ "add-user" \in out.hist.behind
    /\ ~out.ok
    /\ out.kind = "DuplicateName"

\* C19: a step that completes increment_token for a name no insert_user has
\* created returns success and leaves the table as it was: no record for the
\* name, every other record unchanged.
C19_IncrementMissingNoOp ==
    [][(out'.op = "revoke" /\ ~out'.hist.existed) =>
           (out'.ok /\ users' = users /\ users'[out'.msg] = NoUser)]_vars

C19_Witness ==
    /\ out.op = "revoke"
    /\ ~out.hist.existed
    /\ out.ok
    /\ users[out.msg] = NoUser
    /\ \E n \in Names : users[n] # NoUser /\ users[n].token_version = 1

StartOps == {"new_server", "new_client"}

\* The key file that the construction reads before it looks at the algorithm
KeyFileRead ==
    IF out.op = "new_server" THEN out.hist.config.priv_key_file
    ELSE out.hist.config.pub_key_file

\* C20: the construction of a server or of a client whose configured
\* algorithm is not one of ES256, ES384, RS256/384/512, PS256/384/512 fails
\* without the database being opened, with AlgorithmNotAllowed(alg) whenever
\* its key file can be read; every server or client constructed has one of
\* those algorithms, the running server's included.
C20_StartupAlgorithm ==
    /\ SERVER_ALG \in EcAlgs \cup RsaAlgs
    /\ out.op \in StartOps =>
           /\ out.hist.config.alg \notin EcAlgs \cup RsaAlgs =>
                  /\ ~out.ok
                  /\ ~out.hist.opened
                  /\ KeyFileRead # "missing" =>
                         /\ out.kind = "AlgorithmNotAllowed"
                         /\ out.msg = out.hist.config.alg
                  /\ KeyFileRead = "missing" => out.kind = "Io"
           /\ out.ok => out.hist.config.alg \in EcAlgs \cup RsaAlgs

\* The same with AlgorithmNotAllowed as the error of every such construction,
\* whatever the key file: it fails for a key file that cannot be read, which
\* ends the construction with Io before the algorithm is looked at.
C20_AlwaysAlgorithmNotAllowed ==
    (out.op \in StartOps /\ out.hist.config.alg \notin EcAlgs \cup RsaAlgs) =>
        (~out.ok /\ out.kind = "AlgorithmNotAllowed" /\ ~out.hist.opened)

C20_Witness ==
    /\ out.op = "new_server"
    /\ out.hist.config.alg = "HS256"
    /\ out.hist.config.priv_key_file = "secret"
    /\ out.hist.config.pub_key_file = "secret"
    /\ out.hist.config.database = "users.db"
    /\ out.kind = "AlgorithmNotAllowed"
    /\ ~out.hist.opened

\* C21: the token a caller holds, any token some login of U returned, and
\* the token a login has just returned carry a version that is at most U's
\* token_version; a login whose user fetch came before a revoke of U and
\* whose token was issued after it returns a token with the version of the
\* fetch, and every validate_token call on that token that gets to the
\* version check fails with VersionMismatch.
C21_LoginRevokeRace ==
    /\ held # NoToken =>
           /\ held.claims.version <= users[held.claims.sub].token_version
           /\ held.claims.version = INITIAL_VERSION + heldHist.fetch
    /\ (out.op = "login" /\ out.ok) =>
           /\ out.token.claims.version <=
                  users[out.token.claims.sub].token_version
           /\ out.hist.epoch.fetch < out.hist.epoch.issue =>
                  out.token.claims.version + 1 <=
                      users[out.token.claims.sub].token_version
    /\ (PassedLocal /\ out.hist.epoch.fetch < out.hist.epoch.issue) =>
           (~out.ok /\ out.kind = "VersionMismatch")

C21_Witness ==
    /\ PassedLocal
    /\ out.hist.epoch.fetch = 0
    /\ out.hist.epoch.issue = 1
    /\ out.hist.atCall = 1
    /\ out.hist.token.claims.version = 0
    /\ out.hist.seen = 1
    /\ out.kind = "VersionMismatch"

\* C22: a step that completes an insert_user call with an error completes it
\* with DuplicateName and leaves the table as it was: the record still
\* verifies the password it was created with, and a token the caller holds
\* whose version is the stored one still passes the version check.  At all
\* times a login with the password of the first insert succeeds.
C22_FailedInsertKeepsRecord ==
    /\ [][(out'.op \in InsertOps /\ ~out'.ok) =>
             /\ out'.kind = "DuplicateName"
             /\ users' = users
             /\ verify_password(users'[out'.hist.name].pass_hash,
                                firstPass[out'.hist.name])
             /\ (held # NoToken
                 /\ held.claims.version =
                        users[held.claims.sub].token_version) =>
                    validate_token_remote(get_user(users', held.claims.sub),
                                          held.claims).ok
         ]_vars
    /\ []((out.op = "login" /\ out.hist.known = out.hist.pass) => out.ok)

C22_Witness ==
    /\ out.op \in InsertOps
    /\ ~out.ok
    /\ out.kind = "DuplicateName"
    /\ users[out.hist.name].pass_hash # out.hist.pass_hash
    /\ users[out.hist.name].token_version = 1
    /\ held # NoToken
    /\ held.claims.sub = out.hist.name
    /\ held.claims.version = 1

\* C23: a step that completes a revoke of U leaves every other name's record
\* as it was, creates no record, and leaves U's pass_hash as it was; the
\* version check of a token held for another user gives what it gave before
\* the step.
C23_RevokeFrame ==
    [][out'.op = "revoke" =>
          /\ \A n \in Names \ {out'.msg} : users'[n] = users[n]
          /\ users[out'.msg] = NoUser => users'[out'.msg] = NoUser
          /\ users[out'.msg] # NoUser =>
                 /\ users'[out'.msg] # NoUser
                 /\ users'[out'.msg].pass_hash = users[out'.msg].pass_hash
          /\ (held # NoToken /\ held.claims.sub # out'.msg) =>
                 validate_token_remote(get_user(users', held.claims.sub),
                                       held.claims)
                     = validate_token_remote(get_user(users, held.claims.sub),
                                             held.claims)
      ]_vars

C23_Witness ==
    /\ out.op = "revoke"
    /\ out.hist.existed
    /\ users[out.msg].token_version = 2
    /\ held # NoToken
    /\ held.claims.sub # out.msg
    /\ held.claims.version = 1
    /\ validate_token_remote(get_user(users, held.claims.sub), held.claims).ok

====
